---------------------------- MODULE Spec2Model ----------------------------
(***************************************************************************)
(* Real-time fan-out layer of the task-tracking backend:                   *)
(*   src/backend/src/plugins/websocket.js      the connection registry,    *)
(*                                             fan-out, ping timer, onClose *)
(*   src/backend/src/routes/websocket/index.js the /updates handler        *)
(*   src/unnamed/part_000                      authenticateWebSocket       *)
(*   src/backend/src/prisma/seed.js            TaskController (write path) *)
(*                                                                         *)
(* Node runs every handler to completion between awaits, so one action is  *)
(* one synchronous stretch of a handler.                                   *)
(***************************************************************************)
EXTENDS Integers, Sequences, FiniteSets, TLC

\* ------------------------------------------------------------------ bounds
NumConns == 2          \* connection objects the transport hands to the server
MaxClock == 1          \* Date.now() takes the values 0..MaxClock
MaxPending == 2        \* leaked timeouts, and replaced sockets, the client model follows
MaxRev == 1            \* writes that one task row takes

\* ------------------------------------------------------- program constants
OPEN == 1              \* WebSocket.OPEN
CLOSING == 2           \* WebSocket.CLOSING
CLOSED == 3            \* WebSocket.CLOSED
CloseNormal == 1000    \* close code of the onClose hook
ClosePolicy == 1008    \* close code of an authentication failure
CloseInternal == 1011  \* close code of the outer catch of authenticateWebSocket
Unauthorized == 401    \* status of an authentication failure of the HTTP gate
InternalError == 500   \* status of the outer catch of the HTTP gate
CONNECTING == 0        \* WS_STATES.CONNECTING of the client
maxReconnectAttempts == 10
Ok == 200              \* statuses of the task routes
Created == 201
Forbidden == 403
NotFound == 404
Conflict == 409        \* status of register for an account that exists

None == "none"          \* an unset user (undefined)
NoConn == 0             \* no connection (undefined)
NoId == <<>>            \* no connection id (null)
NoSocket == -1          \* the client's socket variable is null
Users == {"u1", "u2"}
Conns == 1..NumConns
Clock == 0..MaxClock
Tasks == {"t1", "t2"}     \* task ids: t1 is seeded for u1, t2 is an id not yet issued
Reqs == {1, 2}            \* requests the task routes handle at a time
Reads == {"getTasks", "getTask"}
Writes == {"createTask", "updateTask", "deleteTask"}
\* a task row: its owner and the number of writes it took; no owner means no row
NoRow == [userId |-> None, rev |-> 0]
\* the value of a list key: the ids of the user's tasks and the rows they were read at
NoList == [cached |-> FALSE, tasks |-> {}, revs |-> [t \in {"t1", "t2"} |-> 0]]
IdleReq == [call |-> None, userId |-> None, id |-> None, pc |-> "idle", seen |-> NoRow,
            list |-> NoList, wrote |-> FALSE]

\* connectionId = `user:${userId}:${Date.now()}`: the pair of its two parts
connectionId(userId, t) == <<userId, t>>
ConnIds == {connectionId(u, t) : u \in Users, t \in Clock}
\* keys used by callers of the registry API; the registry treats keys as opaque
RegIds == {connectionId(u, 0) : u \in Users}

VARIABLES
  activeConnections,  \* the Map, in insertion order: Seq of [id, conn]
  readyState,         \* connection.socket.readyState
  user,               \* connection.user (its id), None while unset
  phase,              \* position of the /updates handler of each connection:
                      \* "new", "auth" (awaiting the session lookup), "admitted",
                      \* "rejected", "gone" (closed and no longer referenced)
  pending,            \* decoded.id of the token while the session lookup is awaited
  connId,             \* the handler's connectionId constant
  closeCode,          \* code the server passed to socket.close, 0 if it did not
  now,                \* Date.now()
  timerOn,            \* pingInterval is scheduled (not cleared)
  answers,            \* the client still answers liveness probes
  removed,            \* history: the connection's entry was deleted from the Map
  missedClose,        \* history: the transport closed before the close listener was attached
  snapshot,           \* the array a caller got from getAllConnections
  subscriptions,      \* connection.subscriptions: "unset", or tasks "on" / "off"
  sentLog,            \* history: the first frame passed to socket.send and the number
                      \* of CONNECTED frames passed to it
  unanswered,         \* history: a client frame arrived while no message listener
                      \* was attached
  last,               \* the last operation and what it returned or sent
  \* the browser client (frontend/src/websocket.js)
  socket,             \* readyState of the client's `socket`, NoSocket while it is null
  reconnectAttempts,
  reconnectTimeoutId, \* "null", "live" (its timeout is pending) or "fired"
  token,              \* the client holds a token
  leakedTimers,       \* pending timeouts that reconnectTimeoutId no longer names
  orphans,            \* replaced sockets that still carry the handlers and will close
  isConnected,        \* the client's signals
  isConnecting,
  connectionError,    \* "null", or which message was set last
  userDisconnected,   \* history: disconnect() returned and the application has not
                      \* called connect since
  \* the task routes (TaskController), their store and their cache
  store,              \* prisma.task: the row of each task id
  taskCache,          \* Redis keys `task:${id}`
  listCache,          \* Redis keys `user:${userId}:tasks`
  reqs,               \* the requests in flight: each one's handler between two awaits
  completed           \* history: the latest write of each task that was answered 200/201

\* the accounts and sessions of the database, and the tokens the clients were handed
VARIABLES
  accounts,           \* prisma.user: the users that have an account
  sessions,           \* prisma.session: clients whose token has a row that has not expired
  held,               \* the token each client was handed by register or login
  ended               \* history: clients whose token was logged out or has expired

clientVars == <<socket, reconnectAttempts, reconnectTimeoutId, token, leakedTimers, orphans,
                isConnected, isConnecting, connectionError, userDisconnected>>
signals == <<isConnected, isConnecting, connectionError>>
taskVars == <<store, taskCache, listCache, reqs, completed>>
sessionVars == <<accounts, sessions, held, ended>>

vars == <<activeConnections, readyState, user, phase, pending, connId, closeCode,
          now, timerOn, answers, removed, missedClose, snapshot, subscriptions,
          sentLog, unanswered, last, clientVars, taskVars, sessionVars>>

connVars == <<readyState, user, phase, pending, connId, closeCode, answers, missedClose>>
frameVars == <<subscriptions, sentLog, unanswered>>

\* ----------------------------------------------------- the registry (Map)
Range(s) == {s[i] : i \in 1..Len(s)}
mapKeys(map) == {map[i].id : i \in 1..Len(map)}
mapHas(map, id) == id \in mapKeys(map)
mapIndex(map, id) == CHOOSE i \in 1..Len(map) : map[i].id = id
\* Map.prototype.set: a present key keeps its position, a new key goes last
mapSet(map, id, c) ==
  IF mapHas(map, id)
    THEN [map EXCEPT ![mapIndex(map, id)] = [id |-> id, conn |-> c]]
    ELSE Append(map, [id |-> id, conn |-> c])
\* Map.prototype.delete
mapDelete(map, id) == SelectSeq(map, LAMBDA e : e.id # id)

occurrences(seq, x) == Cardinality({i \in 1..Len(seq) : seq[i] = x})
registered(c) == \E i \in 1..Len(activeConnections) : activeConnections[i].conn = c
entriesOf(map, c) == {i \in 1..Len(map) : map[i].conn = c}

addConnectionDup(map, id, c) == Append(map, [id |-> id, conn |-> c])
addConnection(map, id, c) == mapSet(map, id, c)

removeConnectionAlwaysTrue(map, id) == [map |-> mapDelete(map, id), removed |-> TRUE]
removeConnection(map, id) == [map |-> mapDelete(map, id), removed |-> mapHas(map, id)]

getConnection(map, id) == IF mapHas(map, id) THEN map[mapIndex(map, id)].conn ELSE NoConn

getAllConnectionsDropFirst(map) == [i \in 1..(Len(map) - 1) |-> map[i + 1].conn]
getAllConnections(map) == [i \in 1..Len(map) |-> map[i].conn]

getConnectionsCount(map) == Len(map)

\* what deleting entries of the Map does to connections' "removed" history
markRemoved(before, after) ==
  [c \in Conns |-> removed[c] \/ (entriesOf(before, c) # {} /\ entriesOf(after, c) = {})]

\* a connection whose socket is CLOSED, whose listeners will not run again and which
\* no Map entry refers to is garbage: the model forgets its fields
garbage(map, rs) ==
  {c \in Conns : phase[c] = "admitted" /\ rs[c] = CLOSED /\ entriesOf(map, c) = {}}
forget(f, dead, v) == [c \in Conns |-> IF c \in dead THEN v ELSE f[c]]

Idle == [op |-> "none"]
\* a client that was handed no token
NoToken == [userId |-> None, by |-> None]
NoLog == [first |-> None, connected |-> 0]

Init ==
  /\ activeConnections = <<>>
  /\ readyState = [c \in Conns |-> OPEN]
  /\ user = [c \in Conns |-> None]
  /\ phase = [c \in Conns |-> "new"]
  /\ pending = [c \in Conns |-> None]
  /\ connId = [c \in Conns |-> NoId]
  /\ closeCode = [c \in Conns |-> 0]
  /\ now = 0
  /\ timerOn = TRUE
  /\ answers = [c \in Conns |-> TRUE]
  /\ removed = [c \in Conns |-> FALSE]
  /\ missedClose = [c \in Conns |-> FALSE]
  /\ snapshot = <<>>
  /\ subscriptions = [c \in Conns |-> "unset"]
  /\ sentLog = [c \in Conns |-> NoLog]
  /\ unanswered = [c \in Conns |-> FALSE]
  /\ last = Idle
  /\ socket = NoSocket
  /\ reconnectAttempts = 0
  /\ reconnectTimeoutId = "null"
  /\ token = FALSE
  /\ leakedTimers = 0
  /\ orphans = 0
  /\ isConnected = FALSE
  /\ isConnecting = FALSE
  /\ connectionError = "null"
  /\ userDisconnected = FALSE
  /\ store = [t \in Tasks |-> IF t = "t1" THEN [userId |-> "u1", rev |-> 0] ELSE NoRow]
  /\ taskCache = [t \in Tasks |-> NoRow]
  /\ listCache = [u \in Users |-> NoList]
  /\ reqs = [r \in Reqs |-> IdleReq]
  /\ completed = [t \in Tasks |-> NoRow]
  /\ accounts = {"u1"}
  /\ sessions = {}
  /\ held = [c \in Conns |-> NoToken]
  /\ ended = {}

\* ------------------------------------------- calls of the registry API
\* fastify.ws.addConnection(id, c) by any caller
AddConnection(id, c) ==
  /\ activeConnections' = addConnection(activeConnections, id, c)
  /\ last' = [op |-> "add", id |-> id, conn |-> c,
              old |-> getConnection(activeConnections, id)]
  /\ UNCHANGED <<clientVars, taskVars, sessionVars, connVars, frameVars, now, timerOn, removed, snapshot>>

\* fastify.ws.removeConnection(id) by any caller
RemoveConnection(id) ==
  LET r == removeConnection(activeConnections, id) IN
  /\ activeConnections' = r.map
  /\ last' = [op |-> "remove", id |-> id, ret |-> r.removed]
  /\ UNCHANGED <<clientVars, taskVars, sessionVars, connVars, frameVars, now, timerOn, removed, snapshot>>

GetConnection(id) ==
  /\ last' = [op |-> "get", id |-> id, ret |-> getConnection(activeConnections, id)]
  /\ UNCHANGED <<clientVars, taskVars, sessionVars, activeConnections, connVars, frameVars, now, timerOn, removed, snapshot>>

GetAllConnections ==
  /\ snapshot' = getAllConnections(activeConnections)
  /\ last' = [op |-> "getAll", ret |-> getConnectionsCount(activeConnections)]
  /\ UNCHANGED <<clientVars, taskVars, sessionVars, activeConnections, connVars, frameVars, now, timerOn, removed>>

GetConnectionsCount ==
  /\ last' = [op |-> "count", ret |-> getConnectionsCount(activeConnections)]
  /\ UNCHANGED <<clientVars, taskVars, sessionVars, activeConnections, connVars, frameVars, now, timerOn, removed, snapshot>>

NextRegistry ==
  \/ \E id \in RegIds, c \in Conns : AddConnection(id, c)
  \/ \E id \in RegIds : RemoveConnection(id)
  \/ \E id \in RegIds : GetConnection(id)
  \/ GetAllConnections
  \/ GetConnectionsCount

SpecRegistry == Init /\ [][NextRegistry]_vars

\* ------------------------------------------------------------ the sockets
\* socket.close(code, reason) called by the server: an OPEN socket starts the
\* closing handshake, a CLOSING or CLOSED one is left as it is
socketClose(rs) == IF rs = OPEN THEN CLOSING ELSE rs

\* ------------------------------------------------------------- the fan-out
\* the filter the task write path passes: connection.user && connection.user.id === userId
ownerFilterAnyUser(userId) == [c \in Conns |-> user[c] # None]
ownerFilterSubscribed(userId) ==
  [c \in Conns |-> user[c] # None /\ user[c] = userId /\ subscriptions[c] = "on"]
ownerFilter(userId) == [c \in Conns |-> user[c] # None /\ user[c] = userId]

\* the messages the write path passes to broadcastFiltered: { type, task } of
\* createTask and updateTask, { type, taskId } of deleteTask
EventKinds == {"TASK_CREATED", "TASK_UPDATED", "TASK_DELETED"}
taskFrame(kind) == [type |-> kind, timestamp |-> FALSE]

\* activeConnections.forEach of broadcastFiltered from entry i on; `throwing` are the
\* sockets whose send raises, which ends the forEach and the call
RECURSIVE filteredLoop(_, _, _, _, _)
filteredLoop(map, i, filterFn, throwing, sent) ==
  IF i > Len(map) THEN [sent |-> sent, threw |-> FALSE, ret |-> Len(sent)]
  ELSE LET c == map[i].conn IN
       IF filterFn[c] /\ readyState[c] = OPEN
         THEN IF c \in throwing
                THEN [sent |-> sent, threw |-> TRUE, ret |-> -1]
                ELSE filteredLoop(map, i + 1, filterFn, throwing, Append(sent, c))
         ELSE filteredLoop(map, i + 1, filterFn, throwing, sent)

broadcastFilteredNoStateCheck(map, filterFn, throwing) ==
  LET cs == SelectSeq(getAllConnections(map), LAMBDA c : filterFn[c]) IN
  [sent |-> cs, threw |-> FALSE, ret |-> Len(cs)]
broadcastFiltered(map, filterFn, throwing) == filteredLoop(map, 1, filterFn, throwing, <<>>)

\* activeConnections.forEach of broadcast(message, excludeId)
RECURSIVE broadcastLoop(_, _, _, _, _)
broadcastLoop(map, i, excludeId, throwing, sent) ==
  IF i > Len(map) THEN [sent |-> sent, threw |-> FALSE, ret |-> Len(sent)]
  ELSE LET c == map[i].conn IN
       IF excludeId # NoId /\ map[i].id = excludeId
         THEN broadcastLoop(map, i + 1, excludeId, throwing, sent)
       ELSE IF readyState[c] = OPEN
         THEN IF c \in throwing
                THEN [sent |-> sent, threw |-> TRUE, ret |-> -1]
                ELSE broadcastLoop(map, i + 1, excludeId, throwing, Append(sent, c))
         ELSE broadcastLoop(map, i + 1, excludeId, throwing, sent)

broadcast(map, excludeId, throwing) == broadcastLoop(map, 1, excludeId, throwing, <<>>)

\* --------------------------------------------------------- the ping timer
\* the forEach of the pingInterval callback: `todo` are the entries not yet visited
\* (deleting the entry being visited does not disturb a Map's forEach)
RECURSIVE pingLoop(_, _, _, _)
pingLoop(map, todo, pinged, closedFrom) ==
  IF todo = <<>> THEN [map |-> map, pinged |-> pinged]
  ELSE LET e == Head(todo) IN
       IF readyState[e.conn] = OPEN
         THEN pingLoop(map, Tail(todo), Append(pinged, e.conn), closedFrom)
       ELSE IF readyState[e.conn] >= closedFrom
         THEN pingLoop(removeConnection(map, e.id).map, Tail(todo), pinged, closedFrom)
         ELSE pingLoop(map, Tail(todo), pinged, closedFrom)

pingIntervalSweepAll(map) == [map |-> <<>>, pinged |-> getAllConnections(map)]
pingIntervalClosedOnly(map) == pingLoop(map, map, <<>>, CLOSED)
pingIntervalEvictSilent(map) ==
  LET keep == SelectSeq(map, LAMBDA e : readyState[e.conn] = OPEN /\ answers[e.conn])
  IN  [map |-> keep, pinged |-> getAllConnections(keep)]
pingInterval(map) == pingLoop(map, map, <<>>, CLOSING)

\* ------------------------------------------------------- the onClose hook
\* the forEach of the hook: close(1000) in a try/catch on every entry; `throwing`
\* are the sockets whose close raises
RECURSIVE closeLoop(_, _, _, _, _)
closeLoop(map, i, throwing, caught, rs) ==
  IF i > Len(map) THEN [rs |-> rs, attempted |-> getAllConnections(map), aborted |-> FALSE]
  ELSE LET c == map[i].conn IN
       IF c \in throwing
         THEN IF caught
                THEN closeLoop(map, i + 1, throwing, caught, rs)
                ELSE [rs |-> rs, attempted |-> SubSeq(getAllConnections(map), 1, i),
                      aborted |-> TRUE]
         ELSE closeLoop(map, i + 1, throwing, caught, [rs EXCEPT ![c] = socketClose(rs[c])])

onCloseUncaught(map, throwing) == closeLoop(map, 1, throwing, FALSE, readyState)
onClose(map, throwing) == closeLoop(map, 1, throwing, TRUE, readyState)

\* ------------------------------------------------------ the frame protocol
\* what a client frame's text is: an object with a type field (None: no type field),
\* the JSON text null, a JSON scalar, or text that is not JSON
FrameTypes == {"PING", "SUBSCRIBE_TASKS", "UNSUBSCRIBE_TASKS", "BOGUS", None}
Frames == {[kind |-> "object", type |-> t] : t \in FrameTypes}
            \cup {[kind |-> k, type |-> None] : k \in {"null", "scalar", "garbage"}}

\* frames the server writes; every one of the handler carries a timestamp
outFrame(type, channel, error) ==
  [type |-> type, channel |-> channel, error |-> error, timestamp |-> TRUE]

\* JSON.parse(message.toString()) followed by the read of data.type: text that is not
\* JSON raises, and so does the property read on null; a scalar has no type
parseType(raw) ==
  IF raw.kind \in {"garbage", "null"} THEN [threw |-> TRUE, type |-> None]
  ELSE IF raw.kind = "scalar" THEN [threw |-> FALSE, type |-> None]
  ELSE [threw |-> FALSE, type |-> raw.type]

\* the message listener: the frames it sends, connection.subscriptions afterwards,
\* and whether it closes the socket
messageHandlerEcho(raw, subs) ==
  [replies |-> <<outFrame("PONG", None, None)>>, subs |-> subs, close |-> FALSE]
messageHandlerCloseOnError(raw, subs) ==
  [replies |-> <<outFrame("ERROR", None, "Invalid message format")>>, subs |-> subs,
   close |-> TRUE]
messageHandlerDeferred(raw, subs) == [replies |-> <<>>, subs |-> subs, close |-> FALSE]
messageHandlerStrict(raw, subs) ==
  [replies |-> <<outFrame("ERROR", None, "Unknown message type")>>,
   subs |-> "unset", close |-> FALSE]
messageHandler(raw, subs) ==
  LET d == parseType(raw) IN
  IF d.threw
    THEN [replies |-> <<outFrame("ERROR", None, "Invalid message format")>>,
          subs |-> subs, close |-> FALSE]
  ELSE IF d.type = "PING"
    THEN [replies |-> <<outFrame("PONG", None, None)>>, subs |-> subs, close |-> FALSE]
  ELSE IF d.type = "SUBSCRIBE_TASKS"
    THEN [replies |-> <<outFrame("SUBSCRIBED", "tasks", None)>>, subs |-> "on",
          close |-> FALSE]
  ELSE IF d.type = "UNSUBSCRIBE_TASKS"
    THEN [replies |-> <<outFrame("UNSUBSCRIBED", "tasks", None)>>,
          subs |-> IF subs = "unset" THEN "unset" ELSE "off", close |-> FALSE]
  ELSE [replies |-> <<outFrame("ERROR", None, "Unknown message type")>>,
        subs |-> subs, close |-> FALSE]

\* the frames the handler sends right after addConnection
greetingNone(userId) == <<>>
greeting(userId) == <<[type |-> "CONNECTED", userId |-> userId, timestamp |-> TRUE]>>

\* history of socket.send calls of one connection, after `types` were passed to it
logSent(entry, types) ==
  LET n == Cardinality({i \in 1..Len(types) : types[i] = "CONNECTED"}) IN
  [first |-> IF entry.first = None /\ types # <<>> THEN types[1] ELSE entry.first,
   connected |-> IF entry.connected + n > 2 THEN 2 ELSE entry.connected + n]
typesOf(frames) == [i \in 1..Len(frames) |-> frames[i].type]

\* ------------------------------------------------------ the authenticator
Tokens == {"missing", "invalid"} \cup Users
LookupResults == {"null", "error"} \cup Users

rejection(cause, code, reason, logged) ==
  [ok |-> FALSE, cause |-> cause, code |-> code, reason |-> reason, logged |-> logged]
Accepted == [ok |-> TRUE, cause |-> None, code |-> 0, reason |-> None, logged |-> FALSE]

\* authenticateWebSocket up to the await: the token of the query string, jwt.verify
verifyToken(tok) ==
  IF tok = "missing"
    THEN rejection("missing", ClosePolicy, "Authentication required", FALSE)
  ELSE IF tok = "invalid"
    THEN rejection("invalid", ClosePolicy, "Invalid authentication token", FALSE)
  ELSE Accepted

\* authenticateWebSocket after the await: a lookup that raised lands in the inner
\* catch, like a token that failed verification
checkSessionAnyOwner(decodedId, res) ==
  IF res \in Users THEN Accepted
  ELSE rejection("nosession", ClosePolicy, "Invalid or expired session", FALSE)
checkSession(decodedId, res) ==
  IF res = "error"
    THEN rejection("error", ClosePolicy, "Invalid authentication token", FALSE)
  ELSE IF res = "null"
    THEN rejection("nosession", ClosePolicy, "Invalid or expired session", FALSE)
  ELSE IF decodedId # res
    THEN rejection("mismatch", ClosePolicy, "Invalid authentication token", FALSE)
  ELSE Accepted

\* the HTTP gate `authenticate`: the same checks, answered with a status
authenticate(tok, res) ==
  IF tok = "missing"
    THEN rejection("missing", Unauthorized, "Authentication required", FALSE)
  ELSE IF tok = "invalid"
    THEN rejection("invalid", Unauthorized, "Invalid authentication token", FALSE)
  ELSE IF res = "error"
    THEN rejection("error", Unauthorized, "Invalid authentication token", FALSE)
  ELSE IF res = "null"
    THEN rejection("nosession", Unauthorized, "Invalid or expired session", FALSE)
  ELSE IF tok # res
    THEN rejection("mismatch", Unauthorized, "Invalid authentication token", FALSE)
  ELSE Accepted

\* -------------------------------------------------- the /updates handler
\* a connection request arrives: the handler runs authenticateWebSocket up to the
\* await of the session lookup
Upgrade(c, tok) ==
  LET v == verifyToken(tok) IN
  /\ timerOn
  /\ phase[c] = "new"
  /\ \A d \in Conns : d < c => phase[d] # "new"
  /\ IF v.ok
       THEN /\ phase' = [phase EXCEPT ![c] = "auth"]
            /\ pending' = [pending EXCEPT ![c] = tok]
            /\ last' = Idle
            /\ UNCHANGED <<readyState, closeCode>>
       ELSE /\ phase' = [phase EXCEPT ![c] = "rejected"]
            /\ readyState' = [readyState EXCEPT ![c] = socketClose(@)]
            /\ closeCode' = [closeCode EXCEPT ![c] = v.code]
            /\ last' = [op |-> "reject", conn |-> c, cause |-> v.cause, code |-> v.code,
                        reason |-> v.reason, logged |-> v.logged]
            /\ UNCHANGED pending
  /\ UNCHANGED <<clientVars, taskVars, sessionVars, activeConnections, user, connId, now, timerOn, answers, removed,
                 missedClose, snapshot, frameVars>>

\* the session lookup settles: the rest of authenticateWebSocket and, when it
\* returns true, the rest of the handler (addConnection, CONNECTED, the listeners)
AuthResume(c, res) ==
  LET v == checkSession(pending[c], res) IN
  /\ phase[c] = "auth"
  /\ pending' = [pending EXCEPT ![c] = None]
  /\ IF v.ok
       THEN LET id == connectionId(res, now)
                map == addConnection(activeConnections, id, c)
                dead == garbage(map, readyState)
                hello == greeting(res)
            IN
            /\ activeConnections' = map
            /\ user' = forget([user EXCEPT ![c] = res], dead, None)
            /\ phase' = forget([phase EXCEPT ![c] = "admitted"], dead, "gone")
            /\ connId' = forget([connId EXCEPT ![c] = id], dead, NoId)
            /\ missedClose' = forget(missedClose, dead, FALSE)
            /\ subscriptions' = forget(subscriptions, dead, "unset")
            /\ sentLog' = forget([sentLog EXCEPT ![c] = logSent(@, typesOf(hello))],
                                 dead, NoLog)
            /\ unanswered' = forget(unanswered, dead, FALSE)
            /\ removed' = markRemoved(activeConnections, map)
            /\ last' = [op |-> "admit", conn |-> c, token |-> pending[c], session |-> res,
                        frames |-> hello,
                        sent |-> IF readyState[c] = OPEN /\ hello # <<>>
                                   THEN <<c>> ELSE <<>>]
            /\ UNCHANGED <<readyState, closeCode>>
       ELSE /\ user' = [user EXCEPT ![c] = IF res \in Users THEN res ELSE @]
            /\ phase' = [phase EXCEPT ![c] = "rejected"]
            /\ readyState' = [readyState EXCEPT ![c] = socketClose(@)]
            /\ closeCode' = [closeCode EXCEPT ![c] = v.code]
            /\ unanswered' = [unanswered EXCEPT ![c] = FALSE]
            /\ last' = [op |-> "reject", conn |-> c, cause |-> v.cause, code |-> v.code,
                        reason |-> v.reason, logged |-> v.logged]
            /\ UNCHANGED <<activeConnections, connId, removed, missedClose,
                           subscriptions, sentLog>>
  /\ UNCHANGED <<clientVars, taskVars, sessionVars, now, timerOn, answers, snapshot>>

\* a request to a protected HTTP route passes the gate `authenticate`
HttpRequest(tok, res) ==
  LET v == authenticate(tok, res) IN
  /\ timerOn
  /\ last' = [op |-> "http", cause |-> v.cause, ok |-> v.ok,
              status |-> v.code, logged |-> v.logged]
  /\ UNCHANGED <<clientVars, taskVars, sessionVars, activeConnections, connVars, frameVars, now, timerOn, removed, snapshot>>

\* a client frame arrives on an OPEN socket: the message listener runs if the
\* handler has attached it, otherwise nobody hears the frame
ClientFrame(c, raw) ==
  /\ phase[c] \in {"auth", "admitted"}
  /\ readyState[c] = OPEN
  /\ IF phase[c] = "admitted"
       THEN LET r == messageHandler(raw, subscriptions[c]) IN
            /\ subscriptions' = [subscriptions EXCEPT ![c] = r.subs]
            /\ sentLog' = [sentLog EXCEPT ![c] = logSent(@, typesOf(r.replies))]
            /\ readyState' = [readyState EXCEPT ![c] = IF r.close THEN socketClose(@) ELSE @]
            /\ last' = [op |-> "frame", conn |-> c, frame |-> raw, heard |-> TRUE,
                        replies |-> r.replies]
            /\ UNCHANGED unanswered
       ELSE /\ unanswered' = [unanswered EXCEPT ![c] = TRUE]
            /\ last' = [op |-> "frame", conn |-> c, frame |-> raw, heard |-> FALSE,
                        replies |-> <<>>]
            /\ UNCHANGED <<subscriptions, sentLog, readyState>>
  /\ UNCHANGED <<clientVars, taskVars, sessionVars, activeConnections, user, phase, pending, connId, closeCode, now, timerOn,
                 answers, removed, missedClose, snapshot>>

\* the close listener of the handler: fastify.ws.removeConnection(connectionId)
closeListenerNone(map, c) == [map |-> map, removed |-> FALSE]
closeListener(map, c) == removeConnection(map, connId[c])

\* the transport starts closing (a close frame was received or sent)
SocketClosing(c) ==
  /\ phase[c] \in {"auth", "admitted"}
  /\ readyState[c] = OPEN
  /\ readyState' = [readyState EXCEPT ![c] = CLOSING]
  /\ last' = Idle
  /\ UNCHANGED <<clientVars, taskVars, sessionVars, activeConnections, user, phase, pending, connId, closeCode, now, timerOn,
                 answers, removed, missedClose, snapshot, frameVars>>

\* the transport is closed and emits 'close'; the listener runs if it is attached
SocketClosed(c) ==
  /\ phase[c] \in {"auth", "admitted"}
  /\ readyState[c] # CLOSED
  /\ readyState' = [readyState EXCEPT ![c] = CLOSED]
  /\ IF phase[c] = "admitted"
       THEN LET r == closeListener(activeConnections, c)
                dead == garbage(r.map, readyState')
            IN
            /\ activeConnections' = r.map
            /\ removed' = markRemoved(activeConnections, r.map)
            /\ last' = [op |-> "close", conn |-> c, ret |-> r.removed]
            /\ user' = forget(user, dead, None)
            /\ phase' = forget(phase, dead, "gone")
            /\ connId' = forget(connId, dead, NoId)
            /\ missedClose' = forget(missedClose, dead, FALSE)
            /\ answers' = forget(answers, dead, TRUE)
            /\ subscriptions' = forget(subscriptions, dead, "unset")
            /\ sentLog' = forget(sentLog, dead, NoLog)
            /\ unanswered' = forget(unanswered, dead, FALSE)
       ELSE /\ missedClose' = [missedClose EXCEPT ![c] = TRUE]
            /\ last' = Idle
            /\ UNCHANGED <<activeConnections, removed, user, phase, connId, answers,
                           frameVars>>
  /\ UNCHANGED <<clientVars, taskVars, sessionVars, pending, closeCode, now, timerOn, snapshot>>

\* one run of the pingInterval callback
PingTick ==
  /\ timerOn
  /\ LET r == pingInterval(activeConnections)
         dead == garbage(r.map, readyState)
     IN
     /\ activeConnections' = r.map
     /\ removed' = markRemoved(activeConnections, r.map)
     /\ last' = [op |-> "tick", pinged |-> r.pinged,
                 \* consecutive runs of the callback are distinct events
                 run |-> IF last.op = "tick" THEN 1 - last.run ELSE 0]
     /\ user' = forget(user, dead, None)
     /\ phase' = forget(phase, dead, "gone")
     /\ connId' = forget(connId, dead, NoId)
     /\ missedClose' = forget(missedClose, dead, FALSE)
     /\ answers' = forget(answers, dead, TRUE)
     /\ subscriptions' = forget(subscriptions, dead, "unset")
     /\ sentLog' = forget(sentLog, dead, NoLog)
     /\ unanswered' = forget(unanswered, dead, FALSE)
  /\ UNCHANGED <<clientVars, taskVars, sessionVars, readyState, pending, closeCode, now, timerOn, snapshot>>

\* createTask / updateTask / deleteTask of a request of user userId, after the store
\* committed: the three make the same call, broadcastFiltered(message, owner filter),
\* and the message is serialized once and is the same for every recipient
TaskEvent(userId, throwing) ==
  LET r == broadcastFiltered(activeConnections, ownerFilter(userId), throwing) IN
  /\ timerOn
  /\ last' = [op |-> "publish", owner |-> userId, failing |-> throwing,
              sent |-> r.sent, ret |-> r.ret, threw |-> r.threw,
              \* the message is the one of whichever of the three made the call
              frames |-> {taskFrame(k) : k \in EventKinds}]
  /\ sentLog' = [c \in Conns |->
                   logSent(sentLog[c], [i \in 1..occurrences(r.sent, c) |-> "TASK"])]
  /\ UNCHANGED <<clientVars, taskVars, sessionVars, activeConnections, connVars, subscriptions, unanswered, now, timerOn,
                 removed, snapshot>>

\* fastify.ws.broadcast(message, excludeId) by any caller
Broadcast(excludeId, throwing) ==
  LET r == broadcast(activeConnections, excludeId, throwing) IN
  /\ timerOn
  /\ last' = [op |-> "broadcast", exclude |-> excludeId, failing |-> throwing,
              sent |-> r.sent, ret |-> r.ret, threw |-> r.threw]
  /\ sentLog' = [c \in Conns |->
                   logSent(sentLog[c], [i \in 1..occurrences(r.sent, c) |-> "MESSAGE"])]
  /\ UNCHANGED <<clientVars, taskVars, sessionVars, activeConnections, connVars, subscriptions, unanswered, now, timerOn,
                 removed, snapshot>>

\* fastify.close(): the onClose hook
Shutdown(throwing) ==
  /\ timerOn
  /\ timerOn' = FALSE
  /\ throwing \subseteq Range(getAllConnections(activeConnections))
  /\ LET r == onClose(activeConnections, throwing)
         map == IF r.aborted THEN activeConnections ELSE <<>>
         dead == garbage(map, r.rs)
     IN
     /\ readyState' = r.rs
     /\ activeConnections' = map
     /\ removed' = markRemoved(activeConnections, map)
     /\ last' = [op |-> "shutdown", code |-> CloseNormal, attempted |-> r.attempted,
                 threw |-> throwing, aborted |-> r.aborted]
     /\ user' = forget(user, dead, None)
     /\ phase' = forget(phase, dead, "gone")
     /\ connId' = forget(connId, dead, NoId)
     /\ missedClose' = forget(missedClose, dead, FALSE)
     /\ answers' = forget(answers, dead, TRUE)
     /\ subscriptions' = forget(subscriptions, dead, "unset")
     /\ sentLog' = forget(sentLog, dead, NoLog)
     /\ unanswered' = forget(unanswered, dead, FALSE)
  /\ UNCHANGED <<clientVars, taskVars, sessionVars, pending, closeCode, now, snapshot>>

\* time passes; connection ids are only compared for equality, so an instant counts
\* only if the id of a live connection was issued in it
ClockAdvance ==
  /\ now < MaxClock
  /\ \E c \in Conns : connId[c] # NoId /\ connId[c][2] = now
  /\ now' = now + 1
  /\ last' = Idle
  /\ UNCHANGED <<clientVars, taskVars, sessionVars, activeConnections, connVars, frameVars, timerOn, removed, snapshot>>

\* a client stops answering liveness probes (its socket stays as it is)
StopAnswering(c) ==
  /\ phase[c] = "admitted"
  /\ readyState[c] = OPEN
  /\ answers[c]
  /\ answers' = [answers EXCEPT ![c] = FALSE]
  /\ last' = Idle
  /\ UNCHANGED <<clientVars, taskVars, sessionVars, activeConnections, readyState, user, phase, pending, connId, closeCode,
                 now, timerOn, removed, missedClose, snapshot, frameVars>>


\* ------------------------------------------ the client's reconnect policy
RECURSIVE pow(_, _)
pow(b, e) == IF e = 0 THEN 1 ELSE b * pow(b, e - 1)
min(a, b) == IF a <= b THEN a ELSE b

\* delays are exact multiples of 2^-maxReconnectAttempts ms for the attempt counts the
\* client reaches, and are kept in that unit
ms(x) == x * pow(2, maxReconnectAttempts)

\* Math.min(1000 * Math.pow(1.5, reconnectAttempts), 30000)
getReconnectDelayUncapped(attempts) ==
  1000 * pow(3, attempts) * pow(2, maxReconnectAttempts - attempts)
getReconnectDelay(attempts) ==
  min(1000 * pow(3, attempts) * pow(2, maxReconnectAttempts - attempts), ms(30000))

\* scheduleReconnect: what it leaves in reconnectAttempts, whether it set a timeout,
\* with which delay, and the events it triggered
quiet(attempts, events) ==
  [attempts |-> attempts, scheduled |-> FALSE, delay |-> 0, events |-> events]
scheduleReconnectUnbounded(attempts) ==
  [attempts |-> attempts + 1, scheduled |-> TRUE,
   delay |-> getReconnectDelay(min(attempts + 1, maxReconnectAttempts)),
   events |-> <<"reconnecting">>]
scheduleReconnect(attempts) ==
  IF attempts >= maxReconnectAttempts
    THEN quiet(attempts, <<"maxReconnectAttemptsReached">>)
    ELSE [attempts |-> attempts + 1, scheduled |-> TRUE,
          delay |-> getReconnectDelay(attempts + 1), events |-> <<"reconnecting">>]

\* handleClose(event)
handleCloseAlwaysRetry(code, attempts) ==
  LET s == scheduleReconnect(attempts) IN
  [s EXCEPT !.events = Append(@, "disconnected")]
handleClose(code, attempts) ==
  IF code = ClosePolicy
    THEN quiet(attempts, <<"authError", "disconnected">>)
    ELSE LET s == scheduleReconnect(attempts) IN
         [s EXCEPT !.events = Append(@, "disconnected")]

\* what a call of the client did: the code of the close event it handled (0 if none),
\* reconnectAttempts before and after, the timeout it set, the events it triggered and
\* whether it created a socket
clientLast(call, ret, code, s) ==
  [op |-> "client", call |-> call, ret |-> ret, code |-> code,
   before |-> reconnectAttempts, attempt |-> s.attempts, delay |-> s.delay,
   scheduled |-> s.scheduled, events |-> s.events, created |-> FALSE]

CloseCodes == {CloseNormal, ClosePolicy, CloseInternal}
pendingTimers == leakedTimers + (IF reconnectTimeoutId = "live" THEN 1 ELSE 0)

\* setTimeout in scheduleReconnect overwrites reconnectTimeoutId without clearing it
setTimer(s) ==
  /\ reconnectAttempts' = s.attempts
  /\ IF s.scheduled
       THEN /\ reconnectTimeoutId' = "live"
            /\ leakedTimers' = leakedTimers + (IF reconnectTimeoutId = "live" THEN 1 ELSE 0)
            /\ leakedTimers' <= MaxPending
       ELSE UNCHANGED <<reconnectTimeoutId, leakedTimers>>

\* the message scheduleReconnect or its caller leaves in connectionError
errorAfter(s, message) == IF s.scheduled THEN message ELSE "max"

serverVars == <<activeConnections, readyState, user, phase, pending, connId, closeCode,
                now, timerOn, answers, removed, missedClose, snapshot, subscriptions,
                sentLog, unanswered, taskVars, sessionVars>>

\* connect's test of the current socket
alreadyConnectedNever(sock) == FALSE
alreadyConnected(sock) == sock \in {CONNECTING, OPEN}

\* what disconnect() does to the timeout it knows
clearTimer(timeoutId) == "null"

\* connect(authToken): `given` says a token is passed, `throws` that new WebSocket raises
connect(given, throws, timeoutId, leaked, call) ==
  IF ~(token \/ given)
    THEN /\ last' = clientLast(call, FALSE, 0, quiet(reconnectAttempts, <<>>))
         /\ reconnectTimeoutId' = timeoutId
         /\ leakedTimers' = leaked
         /\ connectionError' = "token"
         /\ UNCHANGED <<socket, reconnectAttempts, token, orphans, isConnected, isConnecting>>
    ELSE
      /\ token' = TRUE
      /\ IF alreadyConnected(socket)
           THEN /\ last' = clientLast(call, TRUE, 0, quiet(reconnectAttempts, <<>>))
                /\ reconnectTimeoutId' = timeoutId
                /\ leakedTimers' = leaked
                /\ UNCHANGED <<socket, reconnectAttempts, orphans, signals>>
           ELSE IF throws
             THEN LET s == scheduleReconnect(reconnectAttempts) IN
                  /\ reconnectAttempts' = s.attempts
                  /\ reconnectTimeoutId' = IF s.scheduled THEN "live" ELSE "null"
                  /\ leakedTimers' = leaked
                  /\ isConnecting' = FALSE
                  /\ connectionError' = errorAfter(s, "connect")
                  /\ last' = clientLast(call, FALSE, 0, s)
                  /\ UNCHANGED <<socket, orphans, isConnected>>
             ELSE /\ socket' = CONNECTING
                  /\ orphans' = orphans + (IF socket \in {CONNECTING, OPEN, CLOSING}
                                             THEN 1 ELSE 0)
                  /\ orphans' <= MaxPending
                  /\ reconnectTimeoutId' = "null"
                  /\ leakedTimers' = leaked
                  /\ isConnecting' = TRUE
                  /\ connectionError' = "null"
                  /\ last' = [clientLast(call, TRUE, 0, quiet(reconnectAttempts, <<>>))
                                EXCEPT !.created = TRUE]
                  /\ UNCHANGED <<reconnectAttempts, isConnected>>

\* the application calls connect, with or without a token
Connect(given, throws) ==
  /\ connect(given, throws, reconnectTimeoutId, leakedTimers, "connect")
  /\ userDisconnected' = FALSE
  /\ UNCHANGED serverVars

\* a pending timeout fires and calls connect()
TimerFires(current, throws) ==
  /\ IF current THEN reconnectTimeoutId = "live" ELSE leakedTimers > 0
  /\ connect(FALSE, throws,
             IF current THEN "fired" ELSE reconnectTimeoutId,
             IF current THEN leakedTimers ELSE leakedTimers - 1, "timer")
  /\ UNCHANGED <<serverVars, userDisconnected>>

\* socket.onopen
handleOpenKeepCount(attempts) == attempts
handleOpenCount(attempts) == 0
handleOpen ==
  /\ socket = CONNECTING
  /\ socket' = OPEN
  /\ reconnectAttempts' = handleOpenCount(reconnectAttempts)
  /\ isConnected' = TRUE
  /\ isConnecting' = FALSE
  /\ connectionError' = "null"
  /\ last' = clientLast("handleOpen", TRUE, 0,
                         quiet(handleOpenCount(reconnectAttempts), <<"connected">>))
  /\ UNCHANGED <<serverVars, reconnectTimeoutId, token, leakedTimers, orphans,
                 userDisconnected>>

\* the closing handshake of the client's socket starts
ClientSocketClosing ==
  /\ socket = OPEN
  /\ socket' = CLOSING
  /\ last' = Idle
  /\ UNCHANGED <<serverVars, reconnectAttempts, reconnectTimeoutId, token, leakedTimers,
                 orphans, signals, userDisconnected>>

\* socket.onclose of the client's socket, or of a socket it has replaced
HandleClose(code, current) ==
  LET s == handleClose(code, reconnectAttempts) IN
  /\ IF current
       THEN /\ socket \in {CONNECTING, OPEN, CLOSING}
            /\ socket' = CLOSED
            /\ UNCHANGED orphans
       ELSE /\ orphans > 0
            /\ orphans' = orphans - 1
            /\ UNCHANGED socket
  /\ setTimer(s)
  /\ isConnected' = FALSE
  /\ isConnecting' = FALSE
  /\ connectionError' = IF code = ClosePolicy THEN "auth" ELSE errorAfter(s, "closed")
  /\ last' = clientLast("handleClose", TRUE, code, s)
  /\ UNCHANGED <<serverVars, token, userDisconnected>>

\* disconnect(): the socket's onclose is removed before it is closed
Disconnect ==
  /\ reconnectTimeoutId' = clearTimer(reconnectTimeoutId)
  /\ socket' = NoSocket
  /\ isConnected' = FALSE
  /\ isConnecting' = FALSE
  /\ userDisconnected' = TRUE
  /\ last' = clientLast("disconnect", TRUE, 0,
                         quiet(reconnectAttempts, <<"disconnected">>))
  /\ UNCHANGED <<serverVars, reconnectAttempts, token, leakedTimers, orphans,
                 connectionError>>

\* ------------------------------------------------ the task routes
\* prisma.task.findMany({where: {userId}})
findMany(userId) ==
  [cached |-> TRUE,
   tasks |-> {t \in Tasks : store[t].userId = userId},
   revs |-> [t \in Tasks |-> IF store[t].userId \in {userId, None} THEN store[t].rev ELSE 0]]

\* the checks of getTask, updateTask and deleteTask on the row findUnique returned:
\* the status they answer, 0 to go on
checkTaskNoOwner(existingTask, userId) ==
  IF existingTask.userId = None THEN NotFound ELSE 0
checkTask(existingTask, userId) ==
  IF existingTask.userId = None THEN NotFound
  ELSE IF existingTask.userId # userId THEN Forbidden
  ELSE 0

\* the check of getTask on a cached task
checkCachedAnyone(task, userId) == Ok
checkCached(task, userId) == IF task.userId # userId THEN Forbidden ELSE Ok

NoOut == [body |-> NoRow, list |-> NoList, fromCache |-> FALSE, published |-> 0,
          sent |-> <<>>]
\* what a step of request r did: the status it answered (0 if the handler goes on),
\* whether the awaited call failed, and what was sent
taskStep(r, q, step, status, failed, out) ==
  [op |-> "task", req |-> r, call |-> q.call, userId |-> q.userId, id |-> q.id,
   step |-> step, status |-> status, failed |-> failed, wrote |-> q.wrote,
   fromCache |-> out.fromCache, owner |-> out.body.userId,
   published |-> out.published, sent |-> out.sent]

\* the handler of request r goes on as q, or answers and ends
proceed(r, q, step, status, failed, out) ==
  /\ reqs' = [reqs EXCEPT ![r] = IF status = 0 THEN q ELSE IdleReq]
  /\ last' = taskStep(r, q, step, status, failed, out)
  /\ completed' =
       IF status \in {Ok, Created} /\ q.call \in Writes /\ q.seen.rev > completed[q.id].rev
         THEN [completed EXCEPT ![q.id] = [userId |-> q.userId, rev |-> q.seen.rev]]
         ELSE completed

connUnchanged ==
  UNCHANGED <<activeConnections, connVars, subscriptions, unanswered, now, timerOn,
              removed, snapshot, clientVars, sessionVars>>

pendingWrites(id) ==
  Cardinality({x \in Reqs : /\ reqs[x].call \in {"updateTask", "deleteTask"}
                            /\ reqs[x].id = id /\ ~reqs[x].wrote})
pendingCreates ==
  Cardinality({x \in Reqs : reqs[x].call = "createTask" /\ ~reqs[x].wrote})
unissued == {t \in Tasks : store[t] = NoRow}

\* a request of an authenticated user reaches a task route: the handler runs up to
\* its first await
StartRequest(r, call, userId, id) ==
  /\ timerOn
  /\ reqs[r].pc = "idle"
  /\ \A x \in Reqs : x < r => reqs[x].pc # "idle"
  /\ IF call \in {"getTasks", "createTask"} THEN id = None ELSE id \in Tasks
  /\ call \in {"updateTask", "deleteTask"} =>
       (store[id].userId = userId => store[id].rev + pendingWrites(id) < MaxRev)
  /\ call = "createTask" => pendingCreates < Cardinality(unissued)
  /\ LET q == [IdleReq EXCEPT !.call = call, !.userId = userId, !.id = id,
                              !.pc = IF call \in Reads THEN "cacheGet"
                                     ELSE IF call = "createTask" THEN "commit" ELSE "find"]
     IN /\ reqs' = [reqs EXCEPT ![r] = q]
        /\ last' = Idle
        /\ UNCHANGED completed
  /\ UNCHANGED <<store, taskCache, listCache, sentLog>>
  /\ connUnchanged

\* cacheGet settles in getTasks or getTask
CacheGet(r, fails) ==
  LET q == reqs[r]
      task == taskCache[q.id]
      list == listCache[q.userId]
  IN
  /\ q.pc = "cacheGet"
  /\ IF fails
       THEN proceed(r, q, "cacheGet", InternalError, TRUE, NoOut)
       ELSE IF q.call = "getTask"
         THEN IF task.userId # None
                THEN proceed(r, q, "cacheGet", checkCached(task, q.userId), FALSE,
                             IF checkCached(task, q.userId) = Ok
                               THEN [NoOut EXCEPT !.body = task, !.fromCache = TRUE]
                               ELSE NoOut)
                ELSE proceed(r, [q EXCEPT !.pc = "find"], "cacheGet", 0, FALSE, NoOut)
         ELSE IF list.cached
                THEN proceed(r, q, "cacheGet", Ok, FALSE,
                             [NoOut EXCEPT !.list = list, !.fromCache = TRUE])
                ELSE proceed(r, [q EXCEPT !.pc = "find"], "cacheGet", 0, FALSE, NoOut)
  /\ UNCHANGED <<store, taskCache, listCache, sentLog>>
  /\ connUnchanged

\* findMany settles in getTasks; findUnique settles in getTask, updateTask or
\* deleteTask and the handler checks the row
Find(r, fails) ==
  LET q == reqs[r]
      status == checkTask(store[q.id], q.userId)
  IN
  /\ q.pc = "find"
  /\ IF fails
       THEN proceed(r, q, "find", InternalError, TRUE, NoOut)
       ELSE IF q.call = "getTasks"
         THEN proceed(r, [q EXCEPT !.list = findMany(q.userId), !.pc = "cacheSet"],
                      "find", 0, FALSE, NoOut)
         ELSE IF status # 0
           THEN proceed(r, q, "find", status, FALSE, NoOut)
           ELSE proceed(r, [q EXCEPT !.seen = store[q.id],
                                     !.pc = IF q.call = "getTask" THEN "cacheSet"
                                            ELSE "commit"],
                        "find", 0, FALSE, NoOut)
  /\ UNCHANGED <<store, taskCache, listCache, sentLog>>
  /\ connUnchanged

\* cacheSet settles in getTasks or getTask, and the handler answers
CacheSet(r, fails) ==
  LET q == reqs[r] IN
  /\ q.pc = "cacheSet"
  /\ IF fails
       THEN /\ proceed(r, q, "cacheSet", InternalError, TRUE, NoOut)
            /\ UNCHANGED <<taskCache, listCache>>
       ELSE IF q.call = "getTask"
         THEN /\ taskCache' = [taskCache EXCEPT ![q.id] = q.seen]
              /\ proceed(r, q, "cacheSet", Ok, FALSE, [NoOut EXCEPT !.body = q.seen])
              /\ UNCHANGED listCache
         ELSE /\ listCache' = [listCache EXCEPT ![q.userId] = q.list]
              /\ proceed(r, q, "cacheSet", Ok, FALSE, [NoOut EXCEPT !.list = q.list])
              /\ UNCHANGED taskCache
  /\ UNCHANGED <<store, sentLog>>
  /\ connUnchanged

\* prisma.task.create / update / delete settles: the store commits, or the call
\* rejects (the store is down, or the row has gone since findUnique)
Commit(r, fails) ==
  LET q == reqs[r] IN
  /\ q.pc = "commit"
  /\ IF fails \/ (q.call # "createTask" /\ store[q.id].userId = None)
       THEN /\ proceed(r, q, "commit", InternalError, TRUE, NoOut)
            /\ UNCHANGED store
       ELSE IF q.call = "createTask"
         THEN \E t \in unissued :
                LET row == [userId |-> q.userId, rev |-> 1] IN
                /\ store' = [store EXCEPT ![t] = row]
                /\ proceed(r, [q EXCEPT !.id = t, !.seen = row, !.wrote = TRUE,
                                        !.pc = "invalidateList"],
                           "commit", 0, FALSE, NoOut)
         ELSE LET row == [userId |-> IF q.call = "deleteTask" THEN None
                                     ELSE store[q.id].userId,
                          rev |-> store[q.id].rev + 1]
              IN
              /\ store[q.id].rev < MaxRev
              /\ store' = [store EXCEPT ![q.id] = row]
              /\ proceed(r, [q EXCEPT !.seen = row, !.wrote = TRUE,
                                      !.pc = "invalidateTask"],
                         "commit", 0, FALSE, NoOut)
  /\ UNCHANGED <<taskCache, listCache, sentLog>>
  /\ connUnchanged

\* cacheDelete(taskCacheKey) settles in updateTask or deleteTask
InvalidateTask(r, fails) ==
  LET q == reqs[r] IN
  /\ q.pc = "invalidateTask"
  /\ IF fails
       THEN /\ proceed(r, q, "invalidateTask", InternalError, TRUE, NoOut)
            /\ UNCHANGED taskCache
       ELSE /\ taskCache' = [taskCache EXCEPT ![q.id] = NoRow]
            /\ proceed(r, [q EXCEPT !.pc = "invalidateList"], "invalidateTask", 0, FALSE,
                       NoOut)
  /\ UNCHANGED <<store, listCache, sentLog>>
  /\ connUnchanged

\* cacheDelete(userTasksCacheKey) settles in createTask, updateTask or deleteTask;
\* the handler publishes the event with broadcastFiltered and answers
InvalidateList(r, fails) ==
  LET q == reqs[r]
      b == broadcastFiltered(activeConnections, ownerFilter(q.userId), {})
  IN
  /\ q.pc = "invalidateList"
  /\ IF fails
       THEN /\ proceed(r, q, "invalidateList", InternalError, TRUE, NoOut)
            /\ UNCHANGED <<listCache, sentLog>>
       ELSE /\ listCache' = [listCache EXCEPT ![q.userId] = NoList]
            /\ sentLog' = [c \in Conns |->
                             logSent(sentLog[c],
                                     [i \in 1..occurrences(b.sent, c) |-> "TASK"])]
            /\ proceed(r, q, "invalidateList",
                       IF q.call = "createTask" THEN Created ELSE Ok, FALSE,
                       [NoOut EXCEPT !.body = q.seen, !.published = 1, !.sent = b.sent])
  /\ UNCHANGED <<store, taskCache>>
  /\ connUnchanged

\* a cached value reaches the end of its 300 seconds
CacheExpire(key) ==
  /\ IF key \in Tasks
       THEN /\ taskCache[key] # NoRow
            /\ taskCache' = [taskCache EXCEPT ![key] = NoRow]
            /\ UNCHANGED listCache
       ELSE /\ listCache[key].cached
            /\ listCache' = [listCache EXCEPT ![key] = NoList]
            /\ UNCHANGED taskCache
  /\ last' = Idle
  /\ UNCHANGED <<store, reqs, completed, sentLog>>
  /\ connUnchanged

\* ------------------------------------------------ accounts and sessions
\* Each client c is handed at most one token; held[c] names its user and the route
\* that signed it, so a token is identified by the client that holds it.
allButSessions == <<activeConnections, connVars, frameVars, now, timerOn, removed, snapshot,
                    clientVars, taskVars>>

signed(userId, by) == [userId |-> userId, by |-> by]

\* prisma.session.findFirst({ where: { token, expiresAt: { gt: new Date() } } }) of the
\* two gates, for the token of client c
findSession(c) == IF c \in sessions THEN held[c].userId ELSE "null"

accountLast(op, c, userId, status, handed) ==
  [op |-> op, client |-> c, userId |-> userId, status |-> status, handed |-> handed]

\* POST /auth/register: 409 for an account that exists; otherwise the user is created
\* and a token is signed and returned
Register(c, userId) ==
  /\ timerOn
  /\ held[c] = NoToken
  /\ IF userId \in accounts
       THEN /\ last' = accountLast("register", c, userId, Conflict, FALSE)
            /\ UNCHANGED <<accounts, held>>
       ELSE /\ accounts' = accounts \cup {userId}
            /\ held' = [held EXCEPT ![c] = signed(userId, "register")]
            /\ last' = accountLast("register", c, userId, Created, TRUE)
  /\ UNCHANGED <<sessions, ended, allButSessions>>

\* POST /auth/login: 401 for an unknown user or a wrong password; otherwise a token is
\* signed, a session row is created for it and the token is returned
Login(c, userId, passwordOk) ==
  /\ timerOn
  /\ held[c] = NoToken
  /\ IF userId \notin accounts \/ ~passwordOk
       THEN /\ last' = accountLast("login", c, userId, Unauthorized, FALSE)
            /\ UNCHANGED <<held, sessions>>
       ELSE /\ held' = [held EXCEPT ![c] = signed(userId, "login")]
            /\ sessions' = sessions \cup {c}
            /\ last' = accountLast("login", c, userId, Ok, TRUE)
  /\ UNCHANGED <<accounts, ended, allButSessions>>

\* POST /auth/logout behind the HTTP gate: the session rows of the token are deleted
Logout(c) ==
  LET v == authenticate(held[c].userId, findSession(c)) IN
  /\ timerOn
  /\ held[c] # NoToken
  /\ IF v.ok
       THEN /\ sessions' = sessions \ {c}
            /\ ended' = ended \cup {c}
            /\ last' = accountLast("logout", c, held[c].userId, Ok, FALSE)
       ELSE /\ last' = accountLast("logout", c, held[c].userId, v.code, FALSE)
            /\ UNCHANGED <<sessions, ended>>
  /\ UNCHANGED <<accounts, held, allButSessions>>

\* the hour of a session is over: findFirst no longer returns its row
SessionExpire(c) ==
  /\ c \in sessions
  /\ sessions' = sessions \ {c}
  /\ ended' = ended \cup {c}
  /\ last' = Idle
  /\ UNCHANGED <<accounts, held, allButSessions>>

\* client c presents its token at the two gates, and writes a task when the HTTP gate
\* lets it through (the write path publishes to the connections of its user)
TokenUpgrade(c) == held[c] # NoToken /\ Upgrade(c, held[c].userId)
TokenResume(c) == held[c] # NoToken /\ AuthResume(c, findSession(c))
TokenRequest(c) == held[c] # NoToken /\ HttpRequest(held[c].userId, findSession(c))
TokenWrite(c) ==
  /\ held[c] # NoToken
  /\ authenticate(held[c].userId, findSession(c)).ok
  /\ TaskEvent(held[c].userId, {})

Lifecycle ==
  \/ \E c \in Conns, tok \in Tokens : Upgrade(c, tok)
  \/ \E c \in Conns, res \in LookupResults : AuthResume(c, res)
  \/ \E c \in Conns : SocketClosing(c)
  \/ \E c \in Conns : SocketClosed(c)
  \/ PingTick
  \/ ClockAdvance

\* the server in operation; a socket's close may raise in the onClose hook
Next ==
  \/ Lifecycle
  \/ \E u \in Users : TaskEvent(u, {})
  \/ Shutdown({})
  \/ \E c \in Conns : Shutdown({c})

Spec == Init /\ [][Next]_vars

\* the same with sockets whose send raises during a fan-out call
NextFault ==
  \/ Next
  \/ \E u \in Users, c \in Conns : TaskEvent(u, {c})
  \/ \E x \in mapKeys(activeConnections) \cup {NoId} : Broadcast(x, {})
  \/ \E x \in mapKeys(activeConnections) \cup {NoId}, c \in Conns : Broadcast(x, {c})

SpecFault == Init /\ [][NextFault]_vars

\* the frame protocol: clients that connect and send frames of every kind
NextFrames ==
  \/ \E c \in Conns, tok \in Tokens : Upgrade(c, tok)
  \/ \E c \in Conns, res \in LookupResults : AuthResume(c, res)
  \/ \E c \in Conns, raw \in Frames : ClientFrame(c, raw)

SpecFrames == Init /\ [][NextFrames]_vars

\* subscriptions and delivery: clients that connect, subscribe, unsubscribe and ping
\* while the write path publishes task events
SubscriptionFrames ==
  {f \in Frames : f.kind = "object"
                    /\ f.type \in {"PING", "SUBSCRIBE_TASKS", "UNSUBSCRIBE_TASKS"}}
NextDelivery ==
  \/ \E c \in Conns, u \in Users : Upgrade(c, u)
  \/ \E c \in Conns, res \in LookupResults : AuthResume(c, res)
  \/ \E c \in Conns, raw \in SubscriptionFrames : ClientFrame(c, raw)
  \/ \E u \in Users : TaskEvent(u, {})

SpecDelivery == Init /\ [][NextDelivery]_vars

\* whole sessions: admission, client frames, task events of the write path and the
\* close of the transport
SessionFrames == {f \in Frames : f.kind = "garbage" \/ f.type = "PING"}
NextSession ==
  \/ \E c \in Conns, tok \in Tokens : Upgrade(c, tok)
  \/ \E c \in Conns, res \in LookupResults : AuthResume(c, res)
  \/ \E c \in Conns : SocketClosed(c)
  \/ ClockAdvance
  \/ \E c \in Conns, raw \in SessionFrames : ClientFrame(c, raw)
  \/ \E u \in Users : TaskEvent(u, {})

SpecSession == Init /\ [][NextSession]_vars

\* clients that register or log in, present their token at the gates and log out
NextTokens ==
  \/ \E c \in Conns, u \in Users : Register(c, u)
  \/ \E c \in Conns, u \in Users, passwordOk \in BOOLEAN : Login(c, u, passwordOk)
  \/ \E c \in Conns : Logout(c)
  \/ \E c \in Conns : SessionExpire(c)
  \/ \E c \in Conns : TokenUpgrade(c)
  \/ \E c \in Conns : TokenResume(c)
  \/ \E c \in Conns : TokenRequest(c)
  \/ \E c \in Conns : TokenWrite(c)
  \/ \E c \in Conns : SocketClosed(c)

SpecTokens == Init /\ [][NextTokens]_vars

\* the two gates alone: upgrade requests and requests to protected HTTP routes
NextAuth ==
  \/ \E c \in Conns, tok \in Tokens : Upgrade(c, tok)
  \/ \E c \in Conns, res \in LookupResults : AuthResume(c, res)
  \/ \E c \in Conns : SocketClosed(c)
  \/ \E tok \in Tokens, res \in LookupResults : HttpRequest(tok, res)

SpecAuth == Init /\ [][NextAuth]_vars

\* the server while it is not shut down: the timer keeps firing
NextLive ==
  \/ Lifecycle
  \/ \E c \in Conns : StopAnswering(c)

SpecLive == Init /\ [][NextLive]_vars /\ WF_vars(PingTick)

\* the ping timer over connections that subscribe, stop answering probes and start
\* closing
NextMonitor ==
  \/ \E c \in Conns, tok \in Tokens : Upgrade(c, tok)
  \/ \E c \in Conns, res \in LookupResults : AuthResume(c, res)
  \/ \E c \in Conns : SocketClosing(c)
  \/ \E c \in Conns : StopAnswering(c)
  \/ \E c \in Conns : /\ phase[c] = "admitted"
                       /\ ClientFrame(c, [kind |-> "object", type |-> "SUBSCRIBE_TASKS"])
  \/ PingTick

SpecMonitor == Init /\ [][NextMonitor]_vars


\* the browser client: connects, is opened and closed by the transport, reconnects
NextClient ==
  \/ \E given, throws \in BOOLEAN : Connect(given, throws)
  \/ \E current, throws \in BOOLEAN : TimerFires(current, throws)
  \/ handleOpen
  \/ ClientSocketClosing
  \/ \E code \in CloseCodes, current \in BOOLEAN : HandleClose(code, current)
  \/ Disconnect

SpecClient == Init /\ [][NextClient]_vars


\* the write path: createTask, updateTask and deleteTask, one request after another,
\* for users whose connections receive the events; the store and the cache may fail
Calls == Reads \cup Writes
NextTasks ==
  \/ \E c \in Conns, u \in Users : Upgrade(c, u)
  \/ \E c \in Conns, u \in Users : AuthResume(c, u)
  \/ \E call \in Writes, u \in Users, id \in Tasks \cup {None} : StartRequest(1, call, u, id)
  \/ \E r \in Reqs, fails \in BOOLEAN : Find(r, fails)
  \/ \E r \in Reqs, fails \in BOOLEAN : Commit(r, fails)
  \/ \E r \in Reqs, fails \in BOOLEAN : InvalidateTask(r, fails)
  \/ \E r \in Reqs, fails \in BOOLEAN : InvalidateList(r, fails)

SpecTasks == Init /\ [][NextTasks]_vars

\* the checks of updateTask and deleteTask: requests of both users, one after another,
\* on a task of u1 and on an id that has no row, with warm caches and open connections
GuardCalls == {"getTask", "getTasks", "updateTask", "deleteTask"}
NextGuard ==
  \/ \E c \in Conns, u \in Users : Upgrade(c, u)
  \/ \E c \in Conns, u \in Users : AuthResume(c, u)
  \/ \E call \in GuardCalls, u \in Users, id \in Tasks \cup {None} :
       StartRequest(1, call, u, id)
  \/ \E r \in Reqs : CacheGet(r, FALSE)
  \/ \E r \in Reqs : Find(r, FALSE)
  \/ \E r \in Reqs : CacheSet(r, FALSE)
  \/ \E r \in Reqs : Commit(r, FALSE)
  \/ \E r \in Reqs : InvalidateTask(r, FALSE)
  \/ \E r \in Reqs : InvalidateList(r, FALSE)

SpecGuard == Init /\ [][NextGuard]_vars

\* the task routes under concurrent requests, with a store and a cache that work
NextCache ==
  \/ \E r \in Reqs, call \in Calls, u \in Users, id \in Tasks \cup {None} :
       StartRequest(r, call, u, id)
  \/ \E r \in Reqs : CacheGet(r, FALSE)
  \/ \E r \in Reqs : Find(r, FALSE)
  \/ \E r \in Reqs : CacheSet(r, FALSE)
  \/ \E r \in Reqs : Commit(r, FALSE)
  \/ \E r \in Reqs : InvalidateTask(r, FALSE)
  \/ \E r \in Reqs : InvalidateList(r, FALSE)
  \/ \E key \in Tasks \cup Users : CacheExpire(key)

SpecCache == Init /\ [][NextCache]_vars

\* ------------------------------------------------------------ properties

\* C1: a task event published by the write path for user U is written exactly once to
\* each registered connection of U whose socket is OPEN, to no other connection, and
\* the returned count is the number of connections written to.
C1_FanoutScoping ==
  last.op = "publish" =>
    LET eligible == {c \in Conns : registered(c) /\ user[c] = last.owner
                                     /\ readyState[c] = OPEN} IN
    /\ \A c \in eligible : occurrences(last.sent, c) = 1
    /\ \A i \in 1..Len(last.sent) : last.sent[i] \in eligible
    /\ last.ret = Len(last.sent)

C1_Witness ==
  /\ last.op = "publish"
  /\ Len(last.sent) >= 1
  /\ \E c \in Conns : /\ registered(c) /\ readyState[c] = OPEN
                      /\ user[c] \notin {None, last.owner}

\* C2: in one fan-out call (broadcastFiltered or broadcast) a send that fails is
\* swallowed: the call does not raise, and every other eligible connection still
\* gets the message.
C2_SendFailureSwallowed ==
  last.op \in {"publish", "broadcast"} =>
    LET eligible ==
          IF last.op = "publish"
            THEN {c \in Conns : registered(c) /\ user[c] = last.owner
                                  /\ readyState[c] = OPEN}
            ELSE {c \in Conns : /\ readyState[c] = OPEN
                                /\ \E i \in 1..Len(activeConnections) :
                                     /\ activeConnections[i].conn = c
                                     /\ activeConnections[i].id # last.exclude}
    IN
    /\ ~last.threw
    /\ \A c \in eligible \ last.failing : c \in Range(last.sent)

\* C3: removeConnection(id) of an absent id returns false and leaves the registry as
\* it is; of a present id it returns true, and a second removeConnection(id) returns
\* false.
C3_RemoveIdempotent ==
  [][\A id \in RegIds :
       (last'.op = "remove" /\ last'.id = id) =>
         /\ last'.ret = mapHas(activeConnections, id)
         /\ ~mapHas(activeConnections, id) => activeConnections' = activeConnections
         /\ mapHas(activeConnections, id) =>
              /\ getConnectionsCount(activeConnections')
                   = getConnectionsCount(activeConnections) - 1
              /\ removeConnection(activeConnections', id).removed = FALSE
              /\ removeConnection(activeConnections', id).map = activeConnections'
     ]_vars

C3_Witness ==
  /\ last.op = "remove"
  /\ last.ret = FALSE
  /\ Len(activeConnections) >= 1

\* C4: getAllConnections returns a snapshot: one element per entry registered at
\* the moment of the call, none missing and none twice, its size the registry size
\* at that moment; later inserts and removes do not change a returned result.
C4_SnapshotIsolation ==
  [][/\ last'.op = "getAll" =>
          /\ \A c \in Conns :
               occurrences(snapshot', c) = Cardinality(entriesOf(activeConnections, c))
          /\ Len(snapshot') = Cardinality(mapKeys(activeConnections))
          /\ Len(snapshot') = last'.ret
          /\ activeConnections' = activeConnections
     /\ last'.op # "getAll" => snapshot' = snapshot
    ]_vars

C4_Witness ==
  /\ last.op \in {"add", "remove"}
  /\ Len(snapshot) >= 1
  /\ Len(snapshot) # getConnectionsCount(activeConnections)

\* C5: addConnection(id, c) with a registered id replaces the stored connection:
\* getConnection(id) then returns c and the count is unchanged; with a new id the
\* count grows by exactly one.
C5_InsertOverwrites ==
  [][\A id \in RegIds, c \in Conns :
       (last'.op = "add" /\ last'.id = id /\ last'.conn = c) =>
         /\ getConnection(activeConnections', id) = c
         /\ getConnectionsCount(activeConnections')
              = getConnectionsCount(activeConnections)
                  + (IF mapHas(activeConnections, id) THEN 0 ELSE 1)
         /\ \A x \in RegIds \ {id} :
              getConnection(activeConnections', x) = getConnection(activeConnections, x)
     ]_vars

C5_Witness ==
  /\ last.op = "add"
  /\ last.old \notin {NoConn, last.conn}
  /\ getConnection(activeConnections, last.id) = last.conn

\* C6: in every reachable state a connection is registered if and only if it was
\* admitted, its socket is OPEN or CLOSING, and it has not been removed.
C6_RegisteredIffLive ==
  \A c \in Conns :
    registered(c) <=> /\ phase[c] = "admitted"
                      /\ readyState[c] \in {OPEN, CLOSING}
                      /\ ~removed[c]

\* C7 (as claimed): when the transport of a registered connection closes, the
\* connection is still registered afterwards, until the next tick.
C7_ClosedStaysUntilTick ==
  [][\A c \in Conns :
       (registered(c) /\ readyState[c] # CLOSED /\ readyState'[c] = CLOSED)
         => registered(c)'
    ]_vars

\* C7 (amended): a registered connection whose transport closes is removed at once
\* by its close listener; a CLOSED connection is registered only if its transport
\* closed before the listener was attached, and a tick leaves none registered.
C7_ClosedRemovedAtOnce ==
  [][/\ \A c \in Conns :
          (registered(c) /\ readyState[c] # CLOSED /\ readyState'[c] = CLOSED)
            => ~registered(c)'
     /\ \A c \in Conns : (registered(c)' /\ readyState'[c] = CLOSED) => missedClose'[c]
     /\ last'.op = "tick" => \A c \in Conns : registered(c)' => readyState'[c] # CLOSED
    ]_vars

C7_Witness ==
  /\ last.op = "close"
  /\ last.ret = TRUE
  /\ ~registered(last.conn)
  /\ \E c \in Conns : registered(c) /\ readyState[c] = CLOSED /\ missedClose[c]

\* C8: a tick visits every connection registered at its start: an OPEN one gets
\* exactly one ping and stays registered, a CLOSING or CLOSED one is removed, so
\* right after a tick no registered connection is CLOSING or CLOSED.
C8_TickVisitsAll ==
  [][last'.op = "tick" =>
       /\ \A c \in Conns :
            registered(c) =>
              IF readyState[c] = OPEN
                THEN occurrences(last'.pinged, c) = 1 /\ registered(c)'
                ELSE occurrences(last'.pinged, c) = 0 /\ ~registered(c)'
       /\ \A i \in 1..Len(last'.pinged) : registered(last'.pinged[i])
       /\ \A c \in Conns : registered(c)' => registered(c) /\ readyState'[c] = OPEN
    ]_vars

C8_Witness ==
  /\ last.op = "tick"
  /\ Len(last.pinged) >= 1
  /\ \E c \in Conns : /\ phase[c] = "admitted" /\ readyState[c] = CLOSING
                      /\ ~registered(c) /\ removed[c]

\* C9 (as claimed): a registered connection that has stopped answering liveness
\* probes is eventually evicted from the registry.
C9_UnresponsiveEvicted ==
  \A c \in Conns : (registered(c) /\ ~answers[c]) ~> ~registered(c)

\* C9 (amended): the monitor evicts by socket state alone: a tick evicts a registered
\* connection, answering or not, exactly when its socket is CLOSING or CLOSED; one
\* that stopped answering probes and whose socket is OPEN is pinged again and stays.
C9_EvictedBySocketState ==
  [][last'.op = "tick" =>
       \A c \in Conns :
         registered(c) =>
           /\ registered(c)' <=> readyState[c] = OPEN
           /\ (~answers[c] /\ readyState[c] = OPEN) => occurrences(last'.pinged, c) = 1
    ]_vars

C9_Witness ==
  /\ last.op = "tick"
  /\ \E c \in Conns : /\ ~answers[c] /\ registered(c)
                      /\ occurrences(last.pinged, c) = 1
  /\ \E c \in Conns : phase[c] = "admitted" /\ readyState[c] = CLOSING /\ ~registered(c)

\* C10: the onClose hook stops the ping timer for good, attempts close(1000) on every
\* registered connection even when the close of one raises, and leaves the registry
\* empty.
C10_ShutdownClosesAll ==
  [][/\ last'.op = "shutdown" =>
          /\ ~timerOn'
          /\ last'.code = CloseNormal
          /\ ~last'.aborted
          /\ activeConnections' = <<>>
          /\ \A c \in Conns :
               registered(c) =>
                 /\ occurrences(last'.attempted, c) = 1
                 /\ c \notin last'.threw => readyState'[c] # OPEN
     /\ ~timerOn => ~timerOn' /\ last'.op # "tick"
    ]_vars

C10_Witness ==
  /\ last.op = "shutdown"
  /\ Len(last.attempted) >= 2
  /\ last.attempted[1] \in last.threw
  /\ readyState[last.attempted[2]] = CLOSING
  /\ activeConnections = <<>>

\* C11: the reply of the message listener is a function of the frame alone: PING
\* gives PONG, SUBSCRIBE_TASKS gives SUBSCRIBED on channel tasks, UNSUBSCRIBE_TASKS
\* gives UNSUBSCRIBED on channel tasks, any other or missing type gives ERROR
\* 'Unknown message type', text that is not JSON gives ERROR 'Invalid message format'
\* (so does the JSON text null; a JSON scalar counts as a frame without a type).
C11_ReplyByFrame ==
  (last.op = "frame" /\ last.heard) =>
    LET f == last.frame
        expected ==
          IF f.kind \in {"garbage", "null"}
            THEN outFrame("ERROR", None, "Invalid message format")
          ELSE IF f.kind = "scalar" THEN outFrame("ERROR", None, "Unknown message type")
          ELSE IF f.type = "PING" THEN outFrame("PONG", None, None)
          ELSE IF f.type = "SUBSCRIBE_TASKS" THEN outFrame("SUBSCRIBED", "tasks", None)
          ELSE IF f.type = "UNSUBSCRIBE_TASKS" THEN outFrame("UNSUBSCRIBED", "tasks", None)
          ELSE outFrame("ERROR", None, "Unknown message type")
    IN last.replies = <<expected>>

C11_Witness ==
  /\ last.op = "frame" /\ last.heard
  /\ last.frame.kind = "garbage"
  /\ last.replies[1].error = "Invalid message format"
  /\ subscriptions[last.conn] = "on"

\* C12: every frame a client sends on a connection that passes authentication gets
\* exactly one response frame, whenever it was sent after the transport opened.
C12_EveryFrameAnswered ==
  /\ \A c \in Conns : phase[c] = "admitted" => ~unanswered[c]
  /\ (last.op = "frame" /\ phase[last.conn] = "admitted") => Len(last.replies) = 1

\* C13: handling a frame of any kind never closes the connection and never changes
\* the registry: a connection that was OPEN and registered is so afterwards, under
\* the same id.
C13_FrameKeepsConnection ==
  [][last'.op = "frame" =>
       /\ readyState' = readyState
       /\ activeConnections' = activeConnections
       /\ connId' = connId
       /\ LET c == last'.conn IN
          (readyState[c] = OPEN /\ getConnection(activeConnections, connId[c]) = c)
            => /\ readyState'[c] = OPEN
               /\ getConnection(activeConnections', connId'[c]) = c
    ]_vars

C13_Witness ==
  /\ last.op = "frame" /\ last.heard
  /\ last.replies[1].type = "ERROR"
  /\ last.frame.kind = "garbage"
  /\ readyState[last.conn] = OPEN
  /\ getConnection(activeConnections, connId[last.conn]) = last.conn

\* C14: UNSUBSCRIBE_TASKS is idempotent: on a connection that never subscribed or
\* that already unsubscribed it is answered UNSUBSCRIBED, never ERROR, the tasks
\* subscription is not on afterwards, and one more UNSUBSCRIBE_TASKS gives the same
\* reply and the same subscriptions.
C14_UnsubscribeIdempotent ==
  [][(/\ last'.op = "frame" /\ last'.heard
      /\ last'.frame = [kind |-> "object", type |-> "UNSUBSCRIBE_TASKS"]) =>
       LET c == last'.conn
           again == messageHandler(last'.frame, subscriptions'[c])
       IN
       /\ last'.replies = <<outFrame("UNSUBSCRIBED", "tasks", None)>>
       /\ subscriptions'[c] # "on"
       /\ subscriptions[c] # "on" => subscriptions'[c] = subscriptions[c]
       /\ again.replies = last'.replies
       /\ again.subs = subscriptions'[c]
    ]_vars

C14_Witness ==
  /\ last.op = "frame" /\ last.heard
  /\ last.frame = [kind |-> "object", type |-> "UNSUBSCRIBE_TASKS"]
  /\ last.replies[1].type = "UNSUBSCRIBED"
  /\ subscriptions[last.conn] = "unset"
  /\ \E c \in Conns : subscriptions[c] = "off"

\* C15: the first frame the server sends on an admitted connection is CONNECTED with
\* the authenticated user id, before any reply and any task event, and it is sent
\* exactly once; a connection that is not admitted is sent nothing.
C15_ConnectedFirst ==
  /\ \A c \in Conns :
       /\ phase[c] = "admitted" => sentLog[c] = [first |-> "CONNECTED", connected |-> 1]
       /\ phase[c] # "admitted" => sentLog[c] = NoLog
  /\ last.op = "admit" =>
       last.frames = <<[type |-> "CONNECTED", userId |-> user[last.conn],
                        timestamp |-> TRUE]>>
  /\ last.op = "publish" =>
       \A i \in 1..Len(last.sent) : sentLog[last.sent[i]].first = "CONNECTED"
  /\ (last.op = "frame" /\ last.replies # <<>>) => sentLog[last.conn].first = "CONNECTED"

C15_Witness ==
  /\ last.op = "publish"
  /\ Len(last.sent) >= 2
  /\ \A i \in 1..Len(last.sent) : sentLog[last.sent[i]].connected = 1

\* C16: when the transport of an admitted connection closes, the connection is
\* deregistered in the same step, a closed transport stays closed, and no reply and
\* no task event is ever written to a connection whose transport is closed.
C16_ClosedGetsNothing ==
  [][/\ \A c \in Conns :
          (phase[c] = "admitted" /\ readyState[c] # CLOSED /\ readyState'[c] = CLOSED)
            => ~registered(c)'
     /\ \A c \in Conns : readyState[c] = CLOSED => readyState'[c] = CLOSED
     /\ last'.op = "publish" =>
          \A i \in 1..Len(last'.sent) : readyState[last'.sent[i]] = OPEN
     /\ (last'.op = "frame" /\ last'.replies # <<>>) => readyState[last'.conn] = OPEN
    ]_vars

C16_Witness ==
  /\ last.op = "publish"
  /\ Len(last.sent) >= 1
  /\ \E c \in Conns : readyState[c] = CLOSED /\ removed[c] /\ ~registered(c)

\* C17: every authentication failure of the upgrade endpoint looks the same to the
\* client: whichever check failed (no token, verification, session, identity), the
\* close code and the close reason are those of every other such failure.
C17_FailuresIndistinguishable ==
  (last.op = "reject" /\ last.cause # "error") =>
    \A tok \in Tokens, res \in LookupResults :
      LET v == verifyToken(tok)
          o == IF v.ok THEN checkSession(tok, res) ELSE v
      IN  (~o.ok /\ o.cause # "error") => (o.code = last.code /\ o.reason = last.reason)

\* C18: a session lookup that fails with an I/O error is an internal error: the
\* upgrade endpoint closes with 1011 and the HTTP gate answers 500, never 1008 / 401,
\* and the error is logged.
C18_StoreErrorIsInternal ==
  /\ (last.op = "reject" /\ last.cause = "error") =>
       last.code = CloseInternal /\ last.logged
  /\ (last.op = "http" /\ last.cause = "error") =>
       last.status = InternalError /\ last.logged

\* C19: a connection is registered only after its token verified, a session for it
\* was found and the token's user id equals the session's; in every other case the
\* socket has been closed by the gate and the connection is not registered, never was,
\* and is sent no CONNECTED.
C19_RegisteredOnlyAfterAuth ==
  /\ \A c \in Conns :
       phase[c] \in {"new", "auth", "rejected"} =>
         /\ ~registered(c) /\ ~removed[c]
         /\ connId[c] = NoId
         /\ sentLog[c] = NoLog
  /\ \A c \in Conns :
       phase[c] = "rejected" => readyState[c] # OPEN /\ closeCode[c] = ClosePolicy
  /\ last.op = "admit" =>
       /\ last.token \in Users
       /\ last.session = last.token
       /\ user[last.conn] = last.session
  /\ last.op = "reject" => ~registered(last.conn) /\ readyState[last.conn] # OPEN

C19_Witness ==
  /\ last.op = "reject"
  /\ last.cause = "mismatch"
  /\ user[last.conn] \in Users
  /\ \E d \in Conns : registered(d) /\ user[d] = user[last.conn]

\* C20: distinct admitted connections have distinct registry identities, so an
\* admission never overwrites the entry of another connection.
C20_IdentityUnique ==
  /\ \A c, d \in Conns :
       (c # d /\ connId[c] # NoId /\ connId[d] # NoId) => connId[c] # connId[d]
  /\ \A c \in Conns :
       (phase[c] = "admitted" /\ readyState[c] = OPEN /\ ~missedClose[c]) => registered(c)

\* C21: every frame the server sends carries a timestamp: CONNECTED, the replies
\* PONG, SUBSCRIBED, UNSUBSCRIBED and ERROR, and the task events TASK_CREATED,
\* TASK_UPDATED and TASK_DELETED.
C21_AllFramesStamped ==
  /\ last.op = "admit" => \A i \in 1..Len(last.frames) : last.frames[i].timestamp
  /\ last.op = "frame" => \A i \in 1..Len(last.replies) : last.replies[i].timestamp
  /\ last.op = "publish" => \A f \in last.frames : f.timestamp

C26_SubscriptionFollowsFrames ==
  [][last'.op = "frame" =>
       LET c == last'.conn
           f == last'.frame
       IN
       /\ (f.kind = "object" /\ f.type = "SUBSCRIBE_TASKS") => subscriptions'[c] = "on"
       /\ (f.kind = "object" /\ f.type = "UNSUBSCRIBE_TASKS") => subscriptions'[c] # "on"
       /\ (f.kind # "object" \/ f.type \notin {"SUBSCRIBE_TASKS", "UNSUBSCRIBE_TASKS"})
            => subscriptions'[c] = subscriptions[c]
       /\ \A d \in Conns \ {c} : subscriptions'[d] = subscriptions[d]
    ]_vars

\* C27: a tick never removes a connection whose socket is OPEN, whether or not it
\* answered earlier probes: it stays registered under its id, and its user and its
\* subscriptions are unchanged.
C27_TickKeepsOpen ==
  [][last'.op = "tick" =>
       \A c \in Conns :
         (registered(c) /\ readyState[c] = OPEN) =>
           /\ registered(c)'
           /\ entriesOf(activeConnections', c) # {}
           /\ \A i \in entriesOf(activeConnections, c) :
                getConnection(activeConnections', activeConnections[i].id) = c
           /\ readyState'[c] = OPEN
           /\ user'[c] = user[c]
           /\ subscriptions'[c] = subscriptions[c]
    ]_vars

C27_Witness ==
  /\ last.op = "tick"
  /\ \E c \in Conns : /\ registered(c) /\ readyState[c] = OPEN /\ ~answers[c]
                      /\ subscriptions[c] = "on"
  /\ \E c \in Conns : removed[c] /\ ~registered(c)

\* C28: a frame is handled in one piece: the state change and the one reply happen
\* in the step in which the frame arrives, so replies leave in the order of arrival,
\* and within that step nothing is sent to another connection and no other
\* connection's state changes.
C28_FrameHandledAtOnce ==
  [][(last'.op = "frame" /\ last'.heard) =>
       LET c == last'.conn IN
       /\ Len(last'.replies) = 1
       /\ sentLog'[c] = logSent(sentLog[c], typesOf(last'.replies))
       /\ messageHandler(last'.frame, subscriptions[c]).replies = last'.replies
       /\ subscriptions'[c] = messageHandler(last'.frame, subscriptions[c]).subs
       /\ \A d \in Conns \ {c} :
            /\ sentLog'[d] = sentLog[d]
            /\ subscriptions'[d] = subscriptions[d]
            /\ unanswered'[d] = unanswered[d]
    ]_vars

C28_Witness ==
  /\ last.op = "frame" /\ last.heard
  /\ last.frame.type = "SUBSCRIBE_TASKS"
  /\ subscriptions[last.conn] = "on"
  /\ \E d \in Conns \ {last.conn} : phase[d] = "admitted" /\ subscriptions[d] = "off"

\* C24: the client's reconnection is bounded: reconnectAttempts stays within
\* 0..maxReconnectAttempts; a close event sets at most one timeout, and none when its
\* code is 1008; when the counter has reached the maximum, scheduleReconnect sets no
\* timeout, leaves the counter and triggers maxReconnectAttemptsReached.
C24_ReconnectBounded ==
  [][/\ reconnectAttempts' \in 0..maxReconnectAttempts
     /\ (last'.op = "client" /\ last'.call = "handleClose") =>
          /\ pendingTimers' <= pendingTimers + 1
          /\ last'.code = ClosePolicy =>
               /\ pendingTimers' = pendingTimers
               /\ reconnectAttempts' = reconnectAttempts
               /\ occurrences(last'.events, "authError") = 1
          /\ (last'.code # ClosePolicy /\ reconnectAttempts < maxReconnectAttempts) =>
               /\ pendingTimers' = pendingTimers + 1
               /\ reconnectAttempts' = reconnectAttempts + 1
               /\ occurrences(last'.events, "reconnecting") = 1
          /\ (last'.code # ClosePolicy /\ reconnectAttempts >= maxReconnectAttempts) =>
               /\ pendingTimers' = pendingTimers
               /\ reconnectAttempts' = reconnectAttempts
               /\ occurrences(last'.events, "maxReconnectAttemptsReached") = 1
               /\ occurrences(last'.events, "reconnecting") = 0
    ]_vars

C24_Witness ==
  /\ last.op = "client" /\ last.call = "handleClose"
  /\ last.code # ClosePolicy
  /\ last.before = maxReconnectAttempts
  /\ reconnectAttempts = maxReconnectAttempts
  /\ ~last.scheduled
  /\ occurrences(last.events, "maxReconnectAttemptsReached") = 1

\* C30: the delay of attempt n is min(1000 * 1.5^n, 30000) ms: 1000 ms times 1.5 for
\* each attempt until the cap of 30000 ms, so it never decreases with n and never
\* exceeds 30000 ms; the timeout of an attempt is set with the delay of that attempt.
C30_DelayCappedExponential ==
  /\ getReconnectDelay(0) = ms(1000)
  /\ \A n \in 1..maxReconnectAttempts :
       /\ 2 * getReconnectDelay(n) = min(3 * getReconnectDelay(n - 1), 2 * ms(30000))
       /\ getReconnectDelay(n - 1) <= getReconnectDelay(n)
       /\ getReconnectDelay(n) <= ms(30000)
  /\ (last.op = "client" /\ last.scheduled) =>
       /\ last.attempt = last.before + 1
       /\ last.delay = getReconnectDelay(last.attempt)
       /\ last.delay <= ms(30000)
       /\ last.delay >= ms(1000)

C30_Witness ==
  /\ last.op = "client" /\ last.scheduled
  /\ last.attempt = maxReconnectAttempts
  /\ last.delay = ms(30000)
  /\ getReconnectDelay(1) = ms(1500)
  /\ getReconnectDelay(8) < ms(30000)
  /\ getReconnectDelay(9) = ms(30000)

\* C22: a task write that has been answered published its event exactly once if it
\* committed in the store, and published none if it did not (not found, forbidden,
\* store failure); the event is published after the commit.
C22_PublishedIffCommitted ==
  (last.op = "task" /\ last.call \in Writes) =>
    /\ last.published = 1 => last.wrote
    /\ last.status # 0 => (last.wrote <=> last.published = 1)

\* C25: once a write of a task has been answered 200/201, no cached value of the task
\* and no cached list of its owner is older than that write.
C25_NoStaleCache ==
  /\ \A t \in Tasks :
       taskCache[t] # NoRow => taskCache[t].rev >= completed[t].rev
  /\ \A u \in Users, t \in Tasks :
       (listCache[u].cached /\ completed[t].userId = u)
         => listCache[u].revs[t] >= completed[t].rev

\* C29: updateTask and deleteTask answer 404 when findUnique returns no row and 403
\* when the row belongs to another user; a request answered 404 or 403 ends at that
\* check, and the step leaves the store and both caches unchanged and sends nothing.
C29_MissingOrForeignRejected ==
  [][(last'.op = "task" /\ last'.call \in {"updateTask", "deleteTask"}) =>
       LET row == store[last'.id] IN
       /\ (last'.step = "find" /\ ~last'.failed /\ row.userId = None)
            => last'.status = NotFound
       /\ (last'.step = "find" /\ ~last'.failed /\ row.userId \notin {None, last'.userId})
            => last'.status = Forbidden
       /\ last'.status \in {NotFound, Forbidden} =>
            /\ last'.step = "find"
            /\ row.userId # last'.userId
            /\ ~last'.wrote
            /\ last'.published = 0
            /\ last'.sent = <<>>
            /\ store' = store
            /\ taskCache' = taskCache
            /\ listCache' = listCache
            /\ sentLog' = sentLog
    ]_vars

C29_Witness ==
  /\ last.op = "task" /\ last.call = "updateTask"
  /\ last.status = Forbidden
  /\ store[last.id].userId \notin {None, last.userId}
  /\ taskCache[last.id] # NoRow
  /\ listCache[last.userId].cached
  /\ listCache[store[last.id].userId].cached
  /\ \E c \in Conns : registered(c) /\ readyState[c] = OPEN /\ user[c] = last.userId
  /\ \E c \in Conns : /\ registered(c) /\ readyState[c] = OPEN
                      /\ user[c] = store[last.id].userId

\* C31: a close event with code 1008 triggers authError and sets no timeout; a close
\* event with another code calls scheduleReconnect, which sets a timeout unless the
\* attempts are used up; both trigger disconnected once and leave isConnected false.
C31_CloseByCode ==
  (last.op = "client" /\ last.call = "handleClose") =>
    /\ ~isConnected
    /\ ~isConnecting
    /\ occurrences(last.events, "disconnected") = 1
    /\ last.code = ClosePolicy =>
         /\ occurrences(last.events, "authError") = 1
         /\ occurrences(last.events, "reconnecting") = 0
         /\ ~last.scheduled
         /\ reconnectAttempts = last.before
         /\ connectionError = "auth"
    /\ last.code # ClosePolicy =>
         /\ occurrences(last.events, "authError") = 0
         /\ last.scheduled <=> last.before < maxReconnectAttempts
         /\ last.scheduled => (reconnectTimeoutId = "live" /\ connectionError = "closed")

C31_Witness ==
  /\ last.op = "client" /\ last.call = "handleClose"
  /\ last.code = ClosePolicy
  /\ socket = CLOSED
  /\ pendingTimers = 0
  /\ last.before > 0

\* C32: after handleOpen, reconnectAttempts is 0, isConnected is true, isConnecting is
\* false and connectionError is null, whatever the count was before.
C32_OpenResets ==
  (last.op = "client" /\ last.call = "handleOpen") =>
    /\ reconnectAttempts = 0
    /\ last.attempt = 0
    /\ isConnected
    /\ ~isConnecting
    /\ connectionError = "null"
    /\ socket = OPEN

C32_Witness ==
  /\ last.op = "client" /\ last.call = "handleOpen"
  /\ last.before = maxReconnectAttempts
  /\ reconnectAttempts = 0

\* C33: from the return of disconnect() until the application calls connect again,
\* the client holds no socket, no reconnect timeout is pending and isConnected and
\* isConnecting are false.
C33_QuietAfterDisconnect ==
  userDisconnected =>
    /\ socket = NoSocket
    /\ pendingTimers = 0
    /\ ~isConnected
    /\ ~isConnecting

\* C34: connect creates a socket only when the current one is neither CONNECTING nor
\* OPEN, so no socket that is CONNECTING or OPEN is ever replaced; with a CONNECTING or
\* OPEN socket it returns true and changes nothing, without a token it returns false
\* and creates nothing, and when it creates a socket the timeout named by
\* reconnectTimeoutId is cancelled.
C34_OneLiveSocket ==
  [][(last'.op = "client" /\ last'.call \in {"connect", "timer"}) =>
       /\ socket \in {CONNECTING, OPEN} =>
            /\ socket' = socket
            /\ orphans' = orphans
            /\ ~last'.created
            /\ token' => last'.ret
       /\ ~token' => (~last'.ret /\ ~last'.created /\ socket' = socket)
       /\ last'.created =>
            /\ socket \notin {CONNECTING, OPEN}
            /\ socket' = CONNECTING
            /\ last'.ret
            /\ reconnectTimeoutId' = "null"
            /\ pendingTimers' <= leakedTimers
    ]_vars

C34_Witness ==
  /\ last.op = "client" /\ last.call = "connect"
  /\ last.ret /\ ~last.created
  /\ socket = OPEN
  /\ reconnectTimeoutId = "live"

\* C35: once the shutdown hook has run (the liveness timer is stopped), the registry
\* is empty: no admission registers a connection afterwards.
C35_EmptyAfterShutdown ==
  ~timerOn => activeConnections = <<>>

\* C38: the close handler of connection c removes no registry entry of another
\* connection that is still OPEN.
C38_CloseRemovesOwnEntry ==
  [][last'.op = "close" =>
       \A d \in Conns :
         (d # last'.conn /\ registered(d) /\ readyState[d] = OPEN) =>
           \E i \in 1..Len(activeConnections') : activeConnections'[i].conn = d
    ]_vars

\* C39: getTask answers 200 only with a task of the requesting user; a request for a
\* task that the store or the cache attributes to another user is answered 403 or
\* 404 without a task in the response and without changing the store or the cache,
\* on the cache-hit path (403) as on the store path.
C39_GetTaskOwnerOnly ==
  [][(last'.op = "task" /\ last'.call = "getTask" /\ last'.status # 0) =>
       LET V == last'.userId
           row == store[last'.id]
           cached == taskCache[last'.id]
       IN
       /\ last'.status = Ok => last'.owner = V
       /\ last'.status # Ok => last'.owner = None /\ ~last'.fromCache
       /\ (last'.step = "cacheGet" /\ cached.userId \notin {None, V}) =>
            last'.status = Forbidden
       /\ (last'.step = "find" /\ row.userId \notin {None, V}) =>
            last'.status = Forbidden
       /\ (row.userId \notin {None, V} \/ cached.userId \notin {None, V}) =>
            /\ last'.status \in {Forbidden, NotFound}
            /\ store' = store
            /\ taskCache' = taskCache
    ]_vars

C39_Witness ==
  /\ last.op = "task" /\ last.call = "getTask"
  /\ last.step = "cacheGet"
  /\ last.status = Forbidden
  /\ taskCache[last.id].userId \notin {None, last.userId}
  /\ store[last.id].userId = taskCache[last.id].userId

\* C36: every token a client was handed by register or login has an active session
\* row until it is logged out or expires.
C36_HandedTokenHasSession ==
  \A c \in Conns : (held[c] # NoToken /\ c \notin ended) => c \in sessions

\* C37: a task event is sent to no connection whose token was logged out or has
\* expired.
C37_EndedSessionSilent ==
  last.op = "publish" => \A c \in Range(last.sent) : c \notin ended

=============================================================================
